---- MODULE Spec2Model ----
(***************************************************************************)
(* Model of torchgeo.datasets.cdl.CDL: construction of the dataset over a  *)
(* root directory (download, integrity check, scan of the raster files     *)
(* into the spatio-temporal index) and __getitem__ (index lookup, window   *)
(* read, conversion to int32).                                             *)
(***************************************************************************)
EXTENDS Integers, Sequences, FiniteSets, TLC

(* ------------------------------ bounds --------------------------------- *)

\* How many rows of the md5s table the model tracks (the table has 13).
NumYears == 2

\* Query coordinates range over 0..MaxCoord on both spatial axes.
MaxCoord == 2

(* --------------------------- class attributes -------------------------- *)

\* CDL.md5s, in the order of the source.
md5s ==
  << <<2020, "97b3b5fd62177c9ed857010bca146f36">>,
     <<2019, "49d8052168c15c18f8b81ee21397b0bb">>,
     <<2018, "c7a3061585131ef049bec8d06c6d521e">>,
     <<2017, "dc8c1d7b255c9258d332dd8b23546c93">>,
     <<2016, "bb4df1b2ee6cedcc12a7e5a4527fcf1b">>,
     <<2015, "d17b4bb6ee7940af2c45d6854dafec09">>,
     <<2014, "6e0fcc800bd9f090f543104db93bead8">>,
     <<2013, "38df780d8b504659d837b4c53a51b3f7">>,
     <<2012, "2f3b46e6e4d91c3b7e2a049ba1531abc">>,
     <<2011, "dac7fe435c3c5a65f05846c715315460">>,
     <<2010, "18c9a00f5981d5d07ace69e3e33ea105">>,
     <<2009, "81a20629a4713de6efba2698ccb2aa3d">>,
     <<2008, "e6aa3967e379b98fd30c26abe9696053">> >>

\* The rows of md5s the model tracks: NumYears rows from the 2015 row on.
FirstRow == CHOOSE i \in 1..Len(md5s) : md5s[i][1] = 2015
Table == SubSeq(md5s, FirstRow, FirstRow + NumYears - 1)
Years == { Table[i][1] : i \in 1..Len(Table) }
Md5Of(year) == Table[CHOOSE i \in 1..Len(Table) : Table[i][1] = year][2]
YearsInOrder == [ i \in 1..Len(Table) |-> Table[i][1] ]

(* ------------------------------ file names ----------------------------- *)
\* A file name is the sequence of its "_"-separated tokens. The first token
\* is a sequence of one-character strings, the others are strings.

DigitChars == <<"0", "1", "2", "3", "4", "5", "6", "7", "8", "9">>
DigitVal(c) == (CHOOSE i \in 1..Len(DigitChars) : DigitChars[i] = c) - 1
IsDigit(c) == \E i \in 1..Len(DigitChars) : DigitChars[i] = c

\* "{}".format(year) for a non-negative int.
RECURSIVE Format(_)
Format(n) ==
  IF n < 10 THEN << DigitChars[n + 1] >>
  ELSE Append(Format(n \div 10), DigitChars[(n % 10) + 1])

\* int(token): the decimal value; ok is FALSE (ValueError) when the token is
\* not a non-empty run of digits.
RECURSIVE DecimalValue(_)
DecimalValue(tok) ==
  IF tok = << >> THEN 0
  ELSE 10 * DecimalValue(SubSeq(tok, 1, Len(tok) - 1)) + DigitVal(tok[Len(tok)])
ParseInt(tok) ==
  IF tok # << >> /\ \A i \in 1..Len(tok) : IsDigit(tok[i])
  THEN [ok |-> TRUE, value |-> DecimalValue(tok)]
  ELSE [ok |-> FALSE, value |-> 0]

Tok30m == "30m"
TokCdlsImg == "cdls.img"

\* "{}_30m_cdls.img": the raster inside the archive of a year.
ImgName(year) == << Format(year), Tok30m, TokCdlsImg >>

\* glob pattern "**_30m_cdls.img" on a base name: any prefix, then the
\* tokens "30m" and "cdls.img".
Glob(names) ==
  { n \in names : Len(n) >= 3 /\ n[Len(n) - 1] = Tok30m /\ n[Len(n)] = TokCdlsImg }

(* ------------------------------ timestamps ----------------------------- *)
\* datetime(year, month, day, hour, minute, second).timestamp(), with the
\* local time zone taken as UTC: seconds since 1970-01-01 00:00:00.

IsLeap(y) == (y % 4 = 0 /\ y % 100 # 0) \/ y % 400 = 0
LeapsBefore(y) == ((y - 1) \div 4) - ((y - 1) \div 100) + ((y - 1) \div 400)
DaysBeforeYear(y) == 365 * (y - 1970) + (LeapsBefore(y) - LeapsBefore(1970))
MonthLengths(y) ==
  <<31, IF IsLeap(y) THEN 29 ELSE 28, 31, 30, 31, 30, 31, 31, 30, 31, 30, 31>>
RECURSIVE DaysBeforeMonth(_, _)
DaysBeforeMonth(y, m) ==
  IF m = 1 THEN 0 ELSE DaysBeforeMonth(y, m - 1) + MonthLengths(y)[m - 1]
Timestamp(y, mo, d, h, mi, s) ==
  (DaysBeforeYear(y) + DaysBeforeMonth(y, mo) + (d - 1)) * 86400
    + h * 3600 + mi * 60 + s

\* A maxt that stops at the start of the last day of the year.
maxtMidnight(year) == Timestamp(year, 12, 31, 0, 0, 0)

\* The temporal bounds __init__ gives the raster of a year.
mint(year) == Timestamp(year, 1, 1, 0, 0, 0)
maxt(year) == Timestamp(year, 12, 31, 23, 59, 59)

(* ----------------------------- the file system ------------------------- *)

NewestYear == YearsInOrder[1]

\* A second raster of the newest year, and a raster whose name carries no year.
TileName == << Format(NewestYear), "b", Tok30m, TokCdlsImg >>
BadName == << <<"x">>, Tok30m, TokCdlsImg >>
\* A file of the folder the glob pattern does not match.
OtherName == << Format(NewestYear), "mask.img" >>

ImgUniverse == { ImgName(y) : y \in Years } \cup {TileName, BadName, OtherName}

\* rasterio's f.bounds of each raster: (left, bottom, right, top). The
\* raster of the newest year covers every query; its tile and the rasters of
\* the other years cover a part.
RasterBounds(name) ==
  IF name = TileName THEN <<0, 0, 2, 1>>
  ELSE IF name = ImgName(NewestYear) THEN <<-1, -1, MaxCoord + 1, MaxCoord + 1>>
  ELSE <<1, 0, 2, 2>>

\* The pixel grid of each raster: one pixel per coordinate unit.
RasterWidth(name) == RasterBounds(name)[3] - RasterBounds(name)[1]
RasterHeight(name) == RasterBounds(name)[4] - RasterBounds(name)[2]

\* The content of an archive on disk: "missing", or the MD5 digest of the
\* file that is there.
OtherDigest == "00000000000000000000000000000000"
ArchiveStates(year) == {"missing", Md5Of(year), OtherDigest}

\* A check_integrity that only looks whether the file exists.
check_integrity_exists(content, md5) == content # "missing"

\* torchvision check_integrity(fpath, md5): the file exists and, when an md5
\* is given, its digest is that md5.
check_integrity(content, md5) ==
  content # "missing" /\ (md5 = "None" \/ content = md5)

(* --------------------------------- state ------------------------------- *)

VARIABLES
  archive,     \* root/cdl/<year>_30m_cdls.zip: content of each year's archive
  imgs,        \* the names of the .img files in root/cdl
  download,    \* argument download of __init__
  checksum,    \* self.checksum
  transforms,  \* self.transforms: "None" or the name of a transform
  pc,          \* position of __init__: start, verify, scan, ready, failed
  error,       \* the exception __init__ raised, or NoError
  fetched,     \* years download_and_extract_archive was called for, in order
  todo,        \* names glob.iglob has still to yield
  opened,      \* names rasterio.open was called with
  index,       \* self.index: the entries inserted, in insertion order
  last,        \* the latest call of __getitem__ and its outcome
  prev,        \* the call before it, when it had the same query
  initial      \* archive and imgs as they were when __init__ was called

vars ==
  << archive, imgs, download, checksum, transforms, pc, error, fetched, todo,
     opened, index, last, prev, initial >>

NoError == [kind |-> "None", msg |-> ""]
NotFoundMsg ==
  "Dataset not found or corrupted. You can use download=True to download it"

NoSample == [masks |-> [shape |-> <<0, 0>>, dtype |-> "None"], tag |-> "None"]
NoWindow == [col_off |-> 0, row_off |-> 0, width |-> 0, height |-> 0]
NoCall ==
  [status |-> "none", query |-> <<0, 0, 0, 0, 0, 0>>, window |-> NoWindow,
   nhits |-> 0, file |-> << >>, sample |-> NoSample]
NoPrev == [same |-> FALSE, status |-> "none", file |-> << >>]

(* ------------------------------ construction --------------------------- *)

\* CDL._check_integrity: every year's archive passes check_integrity, with
\* the year's md5 when self.checksum is set.
_check_integrity(arch, cs) ==
  \A i \in 1..Len(Table) :
    check_integrity(arch[Table[i][1]], IF cs THEN Table[i][2] ELSE "None")

\* A _download that fetches only the years whose archive fails the check.
ToFetchFailing(arch, cs) ==
  SelectSeq(YearsInOrder,
            LAMBDA y : ~check_integrity(arch[y], IF cs THEN Md5Of(y) ELSE "None"))

\* The years CDL._download calls download_and_extract_archive for.
ToFetch(arch, cs) ==
  IF _check_integrity(arch, cs) THEN << >> ELSE YearsInOrder

\* download_and_extract_archive(url, folder, md5) when it succeeds: an archive
\* already there that passes check_integrity(fpath, md5) is kept, otherwise the
\* archive is downloaded; then the archive's raster is extracted.
ArchiveAfterFetch(content, year, cs) ==
  IF check_integrity(content, IF cs THEN Md5Of(year) ELSE "None")
  THEN content
  ELSE Md5Of(year)

\* __init__, lines 70-71 with download set: CDL._download. The first k calls
\* of the fetcher succeed; when k is less than the number of calls planned the
\* next call raises and __init__ fails with it.
_download ==
  /\ pc = "start"
  /\ download
  /\ LET plan == ToFetch(archive, checksum) IN
     \E k \in 0..Len(plan) :
       LET done == { plan[i] : i \in 1..k } IN
       /\ archive' =
            [ y \in Years |->
                IF y \in done THEN ArchiveAfterFetch(archive[y], y, checksum)
                ELSE archive[y] ]
       /\ imgs' = imgs \cup { ImgName(y) : y \in done }
       /\ IF k = Len(plan)
          THEN /\ fetched' = plan
               /\ pc' = "verify"
               /\ error' = error
          ELSE /\ fetched' = SubSeq(plan, 1, k + 1)
               /\ pc' = "failed"
               /\ error' = [kind |-> "URLError", msg |-> ""]
  /\ UNCHANGED << download, checksum, transforms, todo, opened, index, last, prev, initial >>

\* __init__, line 70 with download not set.
NoDownload ==
  /\ pc = "start"
  /\ ~download
  /\ pc' = "verify"
  /\ UNCHANGED << archive, imgs, download, checksum, transforms, error, fetched,
                  todo, opened, index, last, prev, initial >>

\* __init__, lines 73-80: the integrity check, then the start of the glob.
Verify ==
  /\ pc = "verify"
  /\ IF _check_integrity(archive, checksum)
     THEN /\ pc' = "scan"
          /\ todo' = Glob(imgs)
          /\ error' = error
     ELSE /\ pc' = "failed"
          /\ todo' = todo
          /\ error' = [kind |-> "RuntimeError", msg |-> NotFoundMsg]
  /\ UNCHANGED << archive, imgs, download, checksum, transforms, fetched, opened,
                  index, last, prev, initial >>

\* An entry whose coordinates are in the interleaved order
\* (minx, miny, maxx, maxy, mint, maxt).
EntryInterleaved(filename, year) ==
  LET b == RasterBounds(filename) IN
  [coords |-> << b[1], b[2], b[3], b[4], mint(year), maxt(year) >>,
   object |-> filename]

\* The entry __init__ inserts for a raster of a year.
Entry(filename, year) ==
  LET b == RasterBounds(filename) IN
  [coords |-> << b[1], b[3], b[2], b[4], mint(year), maxt(year) >>,
   object |-> filename]

\* __init__, lines 80-87: one turn of the loop, on whichever name the glob
\* yields next.
Scan ==
  /\ pc = "scan"
  /\ \E filename \in todo :
       LET year == ParseInt(filename[1]) IN
       /\ todo' = todo \ {filename}
       /\ IF year.ok
          THEN /\ opened' = opened \cup {filename}
               /\ index' = Append(index, Entry(filename, year.value))
               /\ pc' = pc
               /\ error' = error
          ELSE /\ opened' = opened
               /\ index' = index
               /\ pc' = "failed"
               /\ error' = [kind |-> "ValueError", msg |-> ""]
  /\ UNCHANGED << archive, imgs, download, checksum, transforms, fetched, last, prev, initial >>

\* __init__ returns when the glob is exhausted.
Return ==
  /\ pc = "scan"
  /\ todo = {}
  /\ pc' = "ready"
  /\ UNCHANGED << archive, imgs, download, checksum, transforms, error, fetched,
                  todo, opened, index, last, prev, initial >>

(* -------------------------------- queries ------------------------------ *)
\* A BoundingBox is the tuple (minx, maxx, miny, maxy, mint, maxt).

\* An intersection test of a two-dimensional index: time is ignored.
Intersects2D(a, b) ==
  /\ a[1] <= b[2] /\ b[1] <= a[2]
  /\ a[3] <= b[4] /\ b[3] <= a[4]

\* rtree intersection of two boxes given as (min, max) pairs per dimension:
\* the closed boxes share a point.
Intersects(a, b) ==
  /\ a[1] <= b[2] /\ b[1] <= a[2]
  /\ a[3] <= b[4] /\ b[3] <= a[4]
  /\ a[5] <= b[6] /\ b[5] <= a[6]

\* self.index.intersection(query, objects=True): the entries that intersect
\* the query, in the order the index holds them.
RECURSIVE intersection(_, _)
intersection(idx, query) ==
  IF idx = << >> THEN << >>
  ELSE IF Intersects(Head(idx).coords, query)
       THEN << Head(idx) >> \o intersection(Tail(idx), query)
       ELSE intersection(Tail(idx), query)

\* Window(query.minx, query.miny, query.maxx - query.minx, query.maxy - query.miny)
Window(query) ==
  [col_off |-> query[1], row_off |-> query[3],
   width |-> query[2] - query[1], height |-> query[4] - query[3]]

Min(a, b) == IF a <= b THEN a ELSE b
Max(a, b) == IF a >= b THEN a ELSE b

\* f.read(1, window=window) of rasterio, boundless not set: the window is
\* cropped to the raster's pixel grid and the array has the cropped shape
\* (rows, columns) and the raster's dtype.
Read(filename, window) ==
  LET height == RasterHeight(filename)
      width == RasterWidth(filename)
      row_start == Min(Max(window.row_off, 0), height)
      row_stop == Max(0, Min(window.row_off + window.height, height))
      col_start == Min(Max(window.col_off, 0), width)
      col_stop == Max(0, Min(window.col_off + window.width, width))
  IN [shape |-> << row_stop - row_start, col_stop - col_start >>, dtype |-> "uint8"]

\* masks.astype(np.int32)
AsType(array, dtype) == [array EXCEPT !.dtype = dtype]

\* A transform the caller may pass as transforms: it marks the sample.
ApplyTransform(t, sample) ==
  IF t = "None" THEN sample ELSE [sample EXCEPT !.tag = t]

\* What __getitem__ does for a query on an index: StopIteration from
\* next(hits) when nothing intersects, else the sample read from the first hit.
Lookup(idx, query) ==
  LET window == Window(query)
      hits == intersection(idx, query)
  IN IF hits = << >>
     THEN [status |-> "StopIteration", query |-> query, window |-> window,
           nhits |-> 0, file |-> << >>, sample |-> NoSample]
     ELSE LET filename == hits[1].object
              masks == AsType(Read(filename, window), "int32")
          IN [status |-> "ok", query |-> query, window |-> window,
              nhits |-> Len(hits), file |-> filename,
              sample |-> [masks |-> masks, tag |-> "raw"]]

\* A variant of __getitem__ that deletes the entry it resolved from the index.
GetItemDeleting(query) ==
  /\ pc = "ready"
  /\ last' = Lookup(index, query)
  /\ prev' = IF last.status # "none" /\ last.query = query
             THEN [same |-> TRUE, status |-> last.status, file |-> last.file]
             ELSE NoPrev
  /\ opened' = IF last'.status = "ok" THEN opened \cup {last'.file} ELSE opened
  /\ index' = IF last'.status = "ok"
              THEN LET i == CHOOSE j \in 1..Len(index) :
                              /\ Intersects(index[j].coords, query)
                              /\ \A k \in 1..(j - 1) : ~Intersects(index[k].coords, query)
                   IN SubSeq(index, 1, i - 1) \o SubSeq(index, i + 1, Len(index))
              ELSE index
  /\ UNCHANGED << archive, imgs, download, checksum, transforms, pc, error,
                  fetched, todo, initial >>

\* CDL.__getitem__
__getitem__(query) ==
  /\ pc = "ready"
  /\ last' = Lookup(index, query)
  /\ prev' = IF last.status # "none" /\ last.query = query
             THEN [same |-> TRUE, status |-> last.status, file |-> last.file]
             ELSE NoPrev
  /\ opened' = IF last'.status = "ok" THEN opened \cup {last'.file} ELSE opened
  /\ UNCHANGED << archive, imgs, download, checksum, transforms, pc, error,
                  fetched, todo, index, initial >>

(* ----------------------------- specifications -------------------------- *)

\* Query boxes: both coordinates over 0..MaxCoord.
Coords == 0..MaxCoord
Intervals == { p \in Coords \X Coords : p[1] <= p[2] }

\* Query times: the middle of the newest year, the span from the middle of
\* the year before to it, and the middle of the year after.
Mid(year) == Timestamp(year, 7, 1, 0, 0, 0)
TimeSpans ==
  { << Mid(NewestYear), Mid(NewestYear) >>,
    << Mid(NewestYear - 1), Mid(NewestYear) >>,
    << Mid(NewestYear + 1), Mid(NewestYear + 1) >> }

Queries ==
  { << x[1], x[2], y[1], y[2], t[1], t[2] >> :
      x \in Intervals, y \in Intervals, t \in TimeSpans }

TransformArgs == {"None", "T"}

InitCall ==
  /\ pc = "start"
  /\ error = NoError
  /\ fetched = << >>
  /\ todo = {}
  /\ opened = {}
  /\ index = << >>
  /\ last = NoCall
  /\ prev = NoPrev
  /\ initial = [archive |-> archive, imgs |-> imgs]

\* __init__ called with any arguments on any content of root/cdl.
Init ==
  /\ archive \in [Years -> {"missing", OtherDigest} \cup { Md5Of(y) : y \in Years }]
  /\ \A y \in Years : archive[y] \in ArchiveStates(y)
  /\ imgs \in SUBSET ImgUniverse
  /\ download \in BOOLEAN
  /\ checksum \in BOOLEAN
  /\ transforms \in TransformArgs
  /\ InitCall

Next == _download \/ NoDownload \/ Verify \/ Scan \/ Return

Spec == Init /\ [][Next]_vars

\* __init__ called without download or checksum on a root whose archives are
\* all in place and that holds any of the rasters of the two newest years,
\* then queries.
QueryImgs == { ImgName(NewestYear), ImgName(NewestYear - 1), TileName }
InitQuery ==
  /\ archive = [y \in Years |-> Md5Of(y)]
  /\ imgs \in SUBSET QueryImgs
  /\ download = FALSE
  /\ checksum = FALSE
  /\ transforms \in TransformArgs
  /\ InitCall

GetItem == \E query \in Queries : __getitem__(query)

NextQuery == NoDownload \/ Verify \/ Scan \/ Return \/ GetItem

SpecQuery == InitQuery /\ [][NextQuery]_vars

(* ------------------------- properties: construction -------------------- *)

\* The years whose archive failed the integrity check when __init__ was called.
FailedAtCall ==
  { y \in Years :
      \/ initial.archive[y] = "missing"
      \/ checksum /\ initial.archive[y] # Md5Of(y) }

FetchedSet == { fetched[i] : i \in 1..Len(fetched) }

\* The download step is over and the fetcher raised nothing.
DownloadPassed == download /\ pc # "start" /\ error.kind # "URLError"

\* C2 as stated: with download enabled the fetcher is invoked for exactly the
\* years whose archive fails the integrity check at that moment; a year whose
\* archive passes is never fetched.
C2_FetchesExactlyFailing ==
  DownloadPassed => FetchedSet = FailedAtCall

\* C2 amended: with download enabled the fetcher is invoked for every year of
\* the table, in table order, when at least one archive fails the integrity
\* check at that moment, and for no year when all pass; a fetch that raises
\* ends the sequence; without download nothing is fetched.
C2_FetchesAllOrNone ==
  /\ DownloadPassed =>
       fetched = IF FailedAtCall # {} THEN YearsInOrder ELSE << >>
  /\ (download /\ error.kind = "URLError") =>
       /\ FailedAtCall # {}
       /\ fetched # << >>
       /\ fetched = SubSeq(YearsInOrder, 1, Len(fetched))
  /\ ~download => fetched = << >>

\* C2 witness: a year whose archive passed the check was fetched all the same,
\* because another year's archive was missing.
C2_Witness ==
  /\ DownloadPassed
  /\ \E y \in Years : y \notin FailedAtCall /\ y \in FetchedSet
  /\ \E y \in Years : initial.archive[y] = "missing"

\* C3 as stated: whenever construction returns an instance its index holds at
\* least one entry, one for the raster of each year of the table.
C3_ReadyIndexPopulated ==
  pc = "ready" =>
    /\ Len(index) >= 1
    /\ \A y \in Years : \E i \in 1..Len(index) : index[i].object = ImgName(y)

\* C5: without download, when the archive of some year is missing, or fails
\* its checksum with checksum set, __init__ raises RuntimeError with the hint
\* to use download=True, and no raster was opened nor any entry inserted.
C5_IntegrityFailure ==
  (~download /\ FailedAtCall # {} /\ pc \notin {"start", "verify"}) =>
    /\ pc = "failed"
    /\ error = [kind |-> "RuntimeError",
                msg |-> "Dataset not found or corrupted. You can use download=True to download it"]
    /\ opened = {}
    /\ index = << >>

\* C5 witness: every archive is there, one has the wrong digest, checksum is
\* set, rasters are in the folder, and construction has failed.
C5_Witness ==
  /\ ~download /\ checksum /\ pc = "failed"
  /\ \A y \in Years : initial.archive[y] # "missing"
  /\ \E y \in Years : initial.archive[y] = OtherDigest
  /\ Glob(imgs) # {}

\* Seconds from the epoch to the start of a year, by adding up year lengths.
RECURSIVE EpochOfYear(_)
EpochOfYear(y) ==
  IF y = 1970 THEN 0
  ELSE EpochOfYear(y - 1) + (IF IsLeap(y - 1) THEN 366 ELSE 365) * 86400

EmptyRootDownload ==
  /\ download
  /\ \A y \in Years : initial.archive[y] = "missing"
  /\ initial.imgs = {}
  /\ error.kind # "URLError"

\* C9: with download on an empty root and a fetcher that succeeds for every
\* year, the download is complete before the verification, the verification
\* passes before the scan, and construction returns with exactly one entry per
\* year, from Jan 1 00:00:00 to Dec 31 23:59:59 of that year.
C9_DownloadThenScan ==
  EmptyRootDownload =>
    /\ pc # "failed"
    /\ pc = "verify" => fetched = YearsInOrder /\ index = << >> /\ opened = {}
    /\ pc \in {"scan", "ready"} =>
         /\ fetched = YearsInOrder
         /\ \A y \in Years : archive[y] = Md5Of(y)
    /\ pc = "start" => fetched = << >> /\ index = << >>
    /\ pc = "ready" =>
         /\ Len(index) = Cardinality(Years)
         /\ \A y \in Years :
              \E i \in 1..Len(index) :
                /\ index[i].object = ImgName(y)
                /\ index[i].coords[5] = EpochOfYear(y)
                /\ index[i].coords[6] = EpochOfYear(y + 1) - 1

\* C9 witness: such a construction has returned.
C9_Witness == EmptyRootDownload /\ pc = "ready" /\ Len(index) = NumYears

(* --------------------------- properties: queries ----------------------- *)

\* Two boxes (minx, maxx, miny, maxy, mint, maxt) with no common point.
Apart(a, b) ==
  \/ a[2] < b[1] \/ b[2] < a[1]
  \/ a[4] < b[3] \/ b[4] < a[3]
  \/ a[6] < b[5] \/ b[6] < a[5]

\* The box of a raster, from its bounds and the year in its name.
BoxOf(name) ==
  LET b == RasterBounds(name)
      y == ParseInt(name[1]).value
  IN << b[1], b[3], b[2], b[4], EpochOfYear(y), EpochOfYear(y + 1) - 1 >>

\* C1: when no entry of the index intersects the query, __getitem__ raises
\* (StopIteration from next(hits)) and returns no sample.
C1_NoHitRaises ==
  (last.status # "none"
     /\ \A i \in 1..Len(index) : Apart(BoxOf(index[i].object), last.query)) =>
    /\ last.status = "StopIteration"
    /\ last.sample = NoSample
    /\ last.file = << >>

\* C1 witness: a query on a populated index, later than every entry.
C1_Witness ==
  /\ last.status = "StopIteration"
  /\ index # << >>
  /\ \A i \in 1..Len(index) : last.query[5] > index[i].coords[6]

\* C4 as stated: a successful query returns the transform applied to the
\* sample, and the sample unchanged when no transform was given.
C4_TransformApplied ==
  last.status = "ok" =>
    last.sample = ApplyTransform(transforms, [masks |-> last.sample.masks, tag |-> "raw"])

\* The query lies strictly inside the box, in space and in time.
StrictlyInside(q, box) ==
  /\ box[1] < q[1] /\ q[2] < box[2]
  /\ box[3] < q[3] /\ q[4] < box[4]
  /\ box[5] < q[5] /\ q[6] < box[6]

\* C6 as stated: a query strictly inside an entry's bounds returns a result
\* read from that entry's file, whatever the other entries.
C6_ResolvesThatFile ==
  \A i \in 1..Len(index) :
    (last.status # "none" /\ StrictlyInside(last.query, BoxOf(index[i].object))) =>
      last.status = "ok" /\ last.file = index[i].object

\* C6 amended: a query strictly inside an entry's bounds returns a result,
\* read from the file of an entry that intersects the query; it is that
\* entry's file when no other entry intersects the query.
C6_ResolvesAnIntersectingFile ==
  \A i \in 1..Len(index) :
    (last.status # "none" /\ StrictlyInside(last.query, BoxOf(index[i].object))) =>
      /\ last.status = "ok"
      /\ \E j \in 1..Len(index) :
           /\ last.file = index[j].object
           /\ ~Apart(BoxOf(index[j].object), last.query)
      /\ (\A j \in 1..Len(index) :
            j # i => Apart(BoxOf(index[j].object), last.query))
           => last.file = index[i].object

\* C6 witness: a query of positive area strictly inside one entry, met by
\* another entry too, resolved to the file of one of them.
C6_Witness ==
  /\ last.status = "ok"
  /\ last.query[1] < last.query[2] /\ last.query[3] < last.query[4]
  /\ \E i \in 1..Len(index) : StrictlyInside(last.query, BoxOf(index[i].object))
  /\ last.nhits >= 2

C8_WindowAndShape ==
  last.status = "ok" =>
    /\ last.window = [col_off |-> last.query[1], row_off |-> last.query[3],
                      width |-> last.query[2] - last.query[1],
                      height |-> last.query[4] - last.query[3]]
    /\ last.sample.masks.dtype = "int32"
    /\ last.sample.masks.shape =
         << last.query[4] - last.query[3], last.query[2] - last.query[1] >>

\* C10: entries are inserted only while __init__ scans, each insertion appends
\* one entry and leaves the others as they are, and once __init__ has returned
\* no step, whatever the queries and their outcomes, changes the index.
C10_IndexWriteOnce ==
  [][ /\ index' # index =>
           /\ pc = "scan"
           /\ Len(index') = Len(index) + 1
           /\ SubSeq(index', 1, Len(index)) = index
      /\ pc = "ready" => index' = index ]_vars

\* C10 witness: on an index of several entries a query that finds nothing
\* was issued twice in a row.
C10_Witness ==
  /\ pc = "ready"
  /\ Len(index) >= 2
  /\ last.status = "StopIteration"
  /\ prev.same /\ prev.status = "StopIteration"

====
